---------------------------- MODULE Spec2Model ----------------------------
(***************************************************************************)
(* Model of the spline fitting engine of spheresmooth:                     *)
(*   geometry.py   geodesic_lower, geodesic, piecewise_geodesic            *)
(*   _internal.py  _jump_linear                                            *)
(*   smoothing.py  calculate_loss, penalized_linear_spherical_spline       *)
(*                                                                         *)
(* Number model.  The code computes in binary floating point on the unit   *)
(* sphere.  Here every point lies on one fixed great circle, inside an     *)
(* open half circle, and is named by its angle, a whole number of angle    *)
(* units (so no two points are antipodal and the spherical distance of p   *)
(* and q is |p - q|).  Times and knots are whole numbers of time units.    *)
(* Every real-valued quantity is kept in fixed point and rounded toward    *)
(* zero where the code rounds to the nearest float.  The float values NaN  *)
(* and +inf, which the code does produce and compare against, are kept as  *)
(* values of their own with IEEE comparison rules.                         *)
(*                                                                         *)
(* Arrays.  numpy arrays that the code writes in place (control_points,    *)
(* temp_cp) are objects of a heap and are named by reference, so that      *)
(* copying and aliasing are visible.  Arrays that are only ever rebound    *)
(* (knots, gamma, t, y) are plain values.  Sequences are 1-based here:     *)
(* row i of the code is element i+1 of the model.                          *)
(***************************************************************************)
EXTENDS Integers, Sequences, FiniteSets, TLC

\* ------------------------------------------------------------------------
\* Bounds of the model
\* ------------------------------------------------------------------------
MaxAngle == 3       \* points are the angles 0..MaxAngle
MaxIter == 2        \* the caller's maxiter is drawn from 1..MaxIter

\* ------------------------------------------------------------------------
\* Program constants
\* ------------------------------------------------------------------------
MaxTrials == 100    \* for _ in range(100)
step_size == 2      \* default step_size 1.0, in halves
epsilon_iter == 1   \* default epsilon_iter, in objective units
jump_eps == 1       \* default jump_eps, in jump-energy units

\* Float values and outcomes that are no number of the fixed-point range
NaN == -999999          \* the float nan (0/0 in _jump_linear)
Inf == 999999           \* the float +inf (np.inf)
NegInf == -999998       \* the float -inf (np.log(0))
IndexError == -999997   \* an out-of-range row access raises IndexError
ValueError == -999996   \* a rejected shape or a failed unpacking raises ValueError

\* what an array-valued function yields when it raises IndexError
Raised == << IndexError >>

Point == 0..MaxAngle

\* ------------------------------------------------------------------------
\* Float helpers: a value is a whole number, NaN or Inf
\* ------------------------------------------------------------------------
Abs(x) == IF x < 0 THEN -x ELSE x

\* x / d rounded toward zero
Quot(x, d) == IF x >= 0 THEN x \div d ELSE -((-x) \div d)

\* np.sqrt on a non-negative value, rounded down
Sqrt(x) == CHOOSE r \in 0..x : r * r <= x /\ (r + 1) * (r + 1) > x

\* a <= b under IEEE rules: any comparison with nan is false
FLe(a, b) ==
    /\ a # NaN /\ b # NaN
    /\ \/ b = Inf
       \/ a # Inf /\ a <= b

\* a < b under IEEE rules
FLt(a, b) == a # NaN /\ b # NaN /\ a # Inf /\ (b = Inf \/ a < b)

\* a + b
FAdd(a, b) ==
    IF a = NaN \/ b = NaN THEN NaN
    ELSE IF a = Inf \/ b = Inf THEN Inf
    ELSE a + b

\* lam * x for a finite lam > 0
FScale(lam, x) ==
    IF x = NaN THEN NaN ELSE IF x = Inf THEN Inf ELSE lam * x

\* np.abs(a - b) < eps
FAbsDiffLt(a, b, eps) ==
    /\ a # NaN /\ b # NaN
    /\ a # Inf /\ b # Inf
    /\ Abs(a - b) < eps

\* 1000 * ln(x) for x = 1..64, rounded to the nearest whole number
LnTable ==
    << 0, 693, 1099, 1386, 1609, 1792, 1946, 2079, 2197, 2303, 2398, 2485,
       2565, 2639, 2708, 2773, 2833, 2890, 2944, 2996, 3045, 3091, 3135,
       3178, 3219, 3258, 3296, 3332, 3367, 3401, 3434, 3466, 3497, 3526,
       3555, 3584, 3611, 3638, 3664, 3689, 3714, 3738, 3761, 3784, 3807,
       3829, 3850, 3871, 3892, 3912, 3932, 3951, 3970, 3989, 4007, 4025,
       4043, 4060, 4078, 4094, 4111, 4127, 4143, 4159 >>

\* np.log
Ln(x) == IF x = 0 THEN NegInf ELSE LnTable[x]

\* ------------------------------------------------------------------------
\* geometry.py
\* ------------------------------------------------------------------------
\* spherical_dist: Acos(<x, y>), the angle between x and y
spherical_dist(x, y) == Abs(x - y)

\* np.clip(s, lo, hi)
Clip(s, lo, hi) == IF s < lo THEN lo ELSE IF s > hi THEN hi ELSE s

\* geodesic_lower: s = (t-a)/(b-a) clipped to [0,1]; the point at the
\* fraction s of the arc from p to q.  The fraction is kept as the pair
\* (clipped t - a, b - a).
geodesic_lower(tt, p, q, a, b) ==
    LET omega == spherical_dist(p, q)
    IN  IF omega = 0 THEN p
        ELSE p + Quot((q - p) * (Clip(tt, a, b) - a), b - a)

\* MaskRows with the segment closed at its right end
MaskRowsClosed(t, a, b) ==
    SelectSeq([i \in 1..Len(t) |-> i], LAMBDA i : t[i] >= a /\ t[i] <= b)

\* the rows of t selected by mask = (t >= a) & (t < b), in input order
MaskRows(t, a, b) ==
    SelectSeq([i \in 1..Len(t) |-> i], LAMBDA i : t[i] >= a /\ t[i] < b)

\* the segment s with knots[s] <= x < knots[s+1]; 0 when there is none
SegmentOf(x, K, knots) ==
    IF \E s \in 1..(K - 1) : knots[s] <= x /\ x < knots[s + 1]
    THEN CHOOSE s \in 1..(K - 1) : knots[s] <= x /\ x < knots[s + 1]
    ELSE 0

\* SegmentRows with the rows put back in the order of t
SegmentRowsInputOrder(t, K, knots, j) ==
    SelectSeq([i \in 1..Len(t) |-> << i, SegmentOf(t[i], K, knots) >>],
              LAMBDA e : e[2] >= j)

\* for j in range(K - 1): the input rows of the segments j..K-1, segment
\* after segment (the row order of np.vstack(gamma_list)); each entry is
\* <<input row, segment>>
RECURSIVE SegmentRows(_, _, _, _)
SegmentRows(t, K, knots, j) ==
    IF j > K - 1 THEN << >>
    ELSE LET rows == MaskRows(t, knots[j], knots[j + 1])
         IN  [r \in 1..Len(rows) |-> << rows[r], j >>]
                 \o SegmentRows(t, K, knots, j + 1)

\* piecewise_geodesic: one geodesic_lower point per selected row;
\* IndexError when knots[j+1] does not exist for some segment j
piecewise_geodesic(t, cp, knots) ==
    LET K == Len(cp)
    IN  IF K >= 2 /\ Len(knots) < K THEN Raised
        ELSE LET rows == SegmentRows(t, K, knots, 1)
             IN  [r \in 1..Len(rows) |->
                     LET i == rows[r][1]
                         j == rows[r][2]
                     IN  geodesic_lower(t[i], cp[j], cp[j + 1],
                                        knots[j], knots[j + 1])]


\* ------------------------------------------------------------------------
\* smoothing.py: calculate_loss;  _internal.py: _jump_linear
\* ------------------------------------------------------------------------
RECURSIVE SumSqDist(_, _, _)
SumSqDist(y, gamma, i) ==
    IF i > Len(y) THEN 0
    ELSE spherical_dist(y[i], gamma[i]) * spherical_dist(y[i], gamma[i])
             + SumSqDist(y, gamma, i + 1)

\* calculate_loss: 0.5 * sum of spherical_dist(y[i], gamma[i])**2 over the
\* rows of y; gamma[i] raises IndexError when gamma has fewer rows than y
calculate_loss(y, gamma) ==
    IF Len(gamma) < Len(y) THEN IndexError
    ELSE Quot(SumSqDist(y, gamma, 1), 2)

\* theta / (sin(theta) * d) * (q - cos(theta) p): the tangent at p toward q
\* at speed theta / d; theta = 0 makes the quotient 0/0 = nan
TangentTo(p, q, d) ==
    IF spherical_dist(p, q) = 0 THEN NaN ELSE Quot(q - p, d)

\* jumps[j] = a*p3 - (b1 + b2)*p2 + c*p1 for the interior point j+1:
\* the outgoing tangent at p2 (toward p3) plus the incoming one (toward p1)
JumpAt(cp, knots, j) ==
    LET out == TangentTo(cp[j + 1], cp[j + 2], knots[j + 2] - knots[j + 1])
        inc == TangentTo(cp[j + 1], cp[j], knots[j + 1] - knots[j])
    IN  IF out = NaN \/ inc = NaN THEN NaN ELSE out + inc

\* _jump_linear: one jump per interior control point, m = rows - 2 of them
jump_linear(cp, knots) ==
    [j \in 1..(IF Len(cp) > 2 THEN Len(cp) - 2 ELSE 0) |-> JumpAt(cp, knots, j)]

RECURSIVE SumSq(_, _)
SumSq(v, i) ==
    IF i > Len(v) THEN 0
    ELSE LET rest == SumSq(v, i + 1)
         IN  IF v[i] = NaN \/ rest = NaN THEN NaN ELSE v[i] * v[i] + rest

\* np.sqrt(np.sum(np.sum(_jump_linear(cp, knots)**2, axis=1)))
JumpPenalty(cp, knots) ==
    LET s == SumSq(jump_linear(cp, knots), 1)
    IN  IF s = NaN THEN NaN ELSE Sqrt(s)

\* the objective of a trial or of the convergence check: the loss of the
\* curve through curve_cp, plus lam times the jump penalty of pen_cp when
\* number_penalty > 0 and lam > 0
Objective(t, y, curve_cp, pen_cp, knots, lam, number_penalty) ==
    LET gamma == piecewise_geodesic(t, curve_cp, knots)
        loss == IF gamma = Raised THEN IndexError
                ELSE calculate_loss(y, gamma)
    IN  IF loss = IndexError THEN IndexError
        ELSE IF number_penalty > 0 /\ lam > 0
             THEN FAdd(loss, FScale(lam, JumpPenalty(pen_cp, knots)))
             ELSE loss

\* exp_map(x, v): from x along the tangent v by the angle |v|
exp_map(x, v) == x + v

\* NpCopy that hands out the array itself
NpCopyShared(h, r) == [heap |-> h, ref |-> r]

\* ------------------------------------------------------------------------
\* numpy arrays written in place: objects of the heap, named by reference
\* ------------------------------------------------------------------------
\* a.copy(): a new object with the rows of a
NpCopy(h, r) == [heap |-> Append(h, h[r]), ref |-> Len(h) + 1]

\* a new object with the given rows (y[idx].copy(), np.delete)
NpNew(h, rows) == [heap |-> Append(h, rows), ref |-> Len(h) + 1]

\* np.asarray(a, float): a itself when a is a float array, else a copy
NpAsarray(h, r, is_float) ==
    IF is_float THEN [heap |-> h, ref |-> r] ELSE NpCopy(h, r)

\* an object no name refers to any more is dropped
Free(h, r) == [h EXCEPT ![r] = << >>]

\* np.delete(a, idx): the entries of a whose position is not in idx
NpDelete(a, idx) ==
    SelectSeq([i \in 1..Len(a) |-> << i, a[i] >>], LAMBDA e : e[1] \notin idx)

Values(pairs) == [i \in 1..Len(pairs) |-> pairs[i][2]]

\* ------------------------------------------------------------------------
\* The caller's arguments
\* ------------------------------------------------------------------------
ObsInputs ==
    { [t |-> << 0, 1, 3 >>, y |-> << 0, 2, 1 >>],
      [t |-> << 2, 0, 3 >>, y |-> << 1, 1, 3 >>] }

CpInputs == { << 0, 3 >>, << 0, 1, 2 >>, << 1, 1, 3 >>, << 0, 1, 2, 3 >> }

KnotInputs ==
    { << 0, 4 >>, << 0, 2, 4 >>, << 0, 2, 4, 6 >> }

LambdaInputs == { << 1 >>, << 0, 2 >>, << 2, 1 >> }

DimensionInputs == 2..3

ArgInputs ==
    { a \in [ t : {o.t : o \in ObsInputs}, y : {o.y : o \in ObsInputs},
              has_cp : BOOLEAN, cp : CpInputs \cup {<< >>},
              cp_is_float : BOOLEAN,
              has_dimension : BOOLEAN, dimension : DimensionInputs \cup {0},
              has_knots : BOOLEAN, knots : KnotInputs \cup {<< >>},
              has_lambdas : BOOLEAN, lambdas : LambdaInputs \cup {<< >>},
              maxiter : 1..MaxIter ] :
        /\ [t |-> a.t, y |-> a.y] \in ObsInputs
        /\ a.has_cp <=> a.cp # << >>
        /\ ~a.has_cp => ~a.cp_is_float
        /\ a.has_dimension <=> a.dimension # 0
        /\ a.has_knots <=> a.knots # << >>
        /\ a.has_lambdas <=> a.lambdas # << >> }

NoCall ==
    [ fn |-> "none", t |-> << >>, control_points |-> << >>, knots |-> << >>,
      returned |-> FALSE, rows |-> << >>, out |-> << >> ]

NoArgs ==
    [ t |-> << >>, y |-> << >>, has_cp |-> FALSE, cp |-> << >>,
      cp_is_float |-> FALSE, has_dimension |-> FALSE, dimension |-> 0,
      has_knots |-> FALSE, knots |-> << >>, has_lambdas |-> FALSE,
      lambdas |-> << >>, maxiter |-> 1 ]

\* ------------------------------------------------------------------------
\* penalized_linear_spherical_spline: state
\* ------------------------------------------------------------------------
VARIABLES
    pc,               \* where the call is: start, update, prune, check,
                      \* save, done (returned) or error (raised)
    args,             \* the caller's arguments
    heap,             \* the control-point arrays, by reference
    arg_ref,          \* the caller's initial_control_points (0: none)
    cp_ref,           \* control_points
    tmp_ref,          \* temp_cp
    knots,
    dimension,
    number_penalty,
    lam_idx,          \* 1-based position in lambdas
    it,               \* 1-based outer iteration of this lambda (0: none yet)
    j,                \* the control point the update loop is at (1-based)
    Rlambda,
    Rlambda_stored,
    fit_list,
    bic_list,
    dimension_list,
    trials,           \* line-search trials evaluated so far in this call
    pg,               \* a direct call of piecewise_geodesic: its arguments
                      \* and, once it has returned, its result
    call              \* a direct call of knots_quantile, geodesic or edp:
                      \* its arguments and, once it has ended, its outcome

vars ==
    << pc, args, heap, arg_ref, cp_ref, tmp_ref, knots, dimension,
       number_penalty, lam_idx, it, j, Rlambda, Rlambda_stored, fit_list,
       bic_list, dimension_list, trials, pg, call >>

\* the variables of a call of penalized_linear_spherical_spline
fit_vars ==
    << pc, args, heap, arg_ref, cp_ref, tmp_ref, knots, dimension,
       number_penalty, lam_idx, it, j, Rlambda, Rlambda_stored, fit_list,
       bic_list, dimension_list, trials >>

\* the variables of the direct calls of the other functions
pure_vars == << pg, call >>

control_points == heap[cp_ref]
temp_cp == heap[tmp_ref]
lam == args.lambdas[lam_idx]
n == Len(args.t)

InitFit ==
    /\ pc = "start"
    /\ args = NoArgs
    /\ heap = << >>
    /\ arg_ref = 0
    /\ cp_ref = 0
    /\ tmp_ref = 0
    /\ knots = << >>
    /\ dimension = 0
    /\ number_penalty = 0
    /\ lam_idx = 0
    /\ it = 0
    /\ j = 0
    /\ Rlambda = 0
    /\ Rlambda_stored = 0
    /\ fit_list = << >>
    /\ bic_list = << >>
    /\ dimension_list = << >>
    /\ trials = 0

Init == InitFit /\ pg = NoCall /\ call = NoCall

\* MissingArgument without the check of initial_knots
MissingArgumentKnotsUnchecked(a) ==
    IF ~a.has_lambdas THEN "lambdas"
    ELSE IF ~a.has_cp /\ ~a.has_dimension THEN "dimension"
    ELSE "none"

\* ------------------------------------------------------------------------
\* penalized_linear_spherical_spline: the call, up to the lambda loop
\* ------------------------------------------------------------------------
\* The argument whose absence raises ValueError, in the order of the checks
MissingArgument(a) ==
    IF ~a.has_lambdas THEN "lambdas"
    ELSE IF ~a.has_cp /\ ~a.has_dimension THEN "dimension"
    ELSE IF ~a.has_knots THEN "knots"
    ELSE "none"

\* InitialIndex that rounds to the nearest index instead of down
InitialIndexRounded(nn, num) ==
    [k \in 1..num |->
        IF num = 1 THEN 0
        ELSE (2 * (k - 1) * (nn - 1) + (num - 1)) \div (2 * (num - 1))]

\* idx = floor(linspace(1, n, num=dimension) - 1): the 0-based rows of y
\* that are sampled; linspace(1, n, num=1) is [1]
InitialIndex(nn, num) ==
    [k \in 1..num |->
        IF num = 1 THEN 0 ELSE ((k - 1) * (nn - 1)) \div (num - 1)]

\* y[idx]
InitialSample(y, num) ==
    [k \in 1..num |-> y[InitialIndex(Len(y), num)[k] + 1]]

\* dimension after the control points are initialised
InitialDimension(a) ==
    IF a.has_cp /\ ~a.has_dimension THEN Len(a.cp) ELSE a.dimension

\* Rlambda before the first iteration: the loss, plus lambdas[0] times the
\* jump penalty when lambdas[0] > 0
InitialObjective(a, cp) ==
    LET gamma == piecewise_geodesic(a.t, cp, a.knots)
        loss == IF gamma = Raised THEN IndexError
                ELSE calculate_loss(a.y, gamma)
    IN  IF loss = IndexError THEN IndexError
        ELSE IF a.lambdas[1] > 0
             THEN FAdd(loss, FScale(a.lambdas[1], JumpPenalty(cp, a.knots)))
             ELSE loss

Zeros(len) == [i \in 1..len |-> 0]

Call ==
    /\ pc = "start"
    /\ UNCHANGED pure_vars
    /\ UNCHANGED trials
    /\ \E a \in ArgInputs :
        LET miss == MissingArgument(a)
            h0 == IF a.has_cp THEN << a.cp >> ELSE << >>
            c == IF a.has_cp THEN NpAsarray(h0, 1, a.cp_is_float)
                 ELSE NpNew(h0, InitialSample(a.y, a.dimension))
            tmp == NpCopy(c.heap, c.ref)
            R0 == InitialObjective(a, tmp.heap[tmp.ref])
        IN  /\ args' = a
            /\ IF miss \in {"lambdas", "dimension"}
               THEN /\ pc' = "error"
                    /\ UNCHANGED << heap, arg_ref, cp_ref, tmp_ref, knots,
                                    dimension, number_penalty, lam_idx, it,
                                    j, Rlambda, Rlambda_stored, fit_list,
                                    bic_list, dimension_list >>
               ELSE /\ arg_ref' = IF a.has_cp THEN 1 ELSE 0
                    /\ cp_ref' = c.ref
                    /\ dimension' = InitialDimension(a)
                    /\ IF miss = "knots"
                       THEN /\ pc' = "error"
                            /\ heap' = c.heap
                            /\ UNCHANGED << tmp_ref, knots, number_penalty,
                                            lam_idx, it, j, Rlambda,
                                            Rlambda_stored, fit_list,
                                            bic_list, dimension_list >>
                       ELSE /\ heap' = tmp.heap
                            /\ tmp_ref' = tmp.ref
                            /\ knots' = a.knots
                            /\ bic_list' = Zeros(Len(a.lambdas))
                            /\ dimension_list' = Zeros(Len(a.lambdas))
                            /\ IF R0 = IndexError
                               THEN /\ pc' = "error"
                                    /\ UNCHANGED << number_penalty, lam_idx,
                                                    it, j, Rlambda,
                                                    Rlambda_stored, fit_list >>
                               ELSE /\ Rlambda' = R0
                                    /\ Rlambda_stored' = Inf
                                    /\ fit_list' = << >>
                                    /\ lam_idx' = 1
                                    /\ number_penalty' = Len(c.heap[c.ref]) - 2
                                    /\ it' = 1
                                    /\ j' = 1
                                    /\ pc' = "update"

\* ------------------------------------------------------------------------
\* Update of one control point: gradient, line search, commit
\* ------------------------------------------------------------------------
\* Rgrad_f = Rgrad_loss + lam * R_pen is a sum of closed-form float
\* expressions of the control points; here it is any of the tangents of
\* the great circle at the point: half an angle unit either way, or zero
Gradient == { -1, 0, 1 }

\* LineSearch that takes a trial only when its objective is strictly below
\* R_step
RECURSIVE LineSearchStrict(_, _, _, _, _, _, _, _)
LineSearchStrict(a, cp, temp, kn, idx, R_step, d, k) ==
    LET cp_tmp == exp_map(cp[idx], -d)
        temp2 == [temp EXCEPT ![idx] = cp_tmp]
        Rnew == Objective(a.t, a.y, temp2, temp2, kn, a.lam, a.number_penalty)
    IN  IF Rnew = IndexError \/ FLt(Rnew, R_step) \/ k = MaxTrials
        THEN [pos |-> cp_tmp, R |-> Rnew, trials |-> k]
        ELSE IF d = 0
        THEN [pos |-> cp_tmp, R |-> Rnew, trials |-> MaxTrials]
        ELSE LineSearchStrict(a, cp, temp, kn, idx, R_step, Quot(d, 2), k + 1)

\* for _ in range(100): the trial at the offset d = Rgrad_f * step; the
\* k-th trial is committed when its objective does not exceed R_step or
\* when it is the last one; step *= 0.5 halves the offset.  An offset that
\* has reached 0 stays 0, so a failed trial at offset 0 is repeated
\* unchanged up to the last trial, which is committed.
RECURSIVE LineSearch(_, _, _, _, _, _, _, _)
LineSearch(a, cp, temp, kn, idx, R_step, d, k) ==
    LET cp_tmp == exp_map(cp[idx], -d)
        temp2 == [temp EXCEPT ![idx] = cp_tmp]
        Rnew == Objective(a.t, a.y, temp2, temp2, kn, a.lam, a.number_penalty)
    IN  IF Rnew = IndexError \/ FLe(Rnew, R_step) \/ k = MaxTrials
        THEN [pos |-> cp_tmp, R |-> Rnew, trials |-> k]
        ELSE IF d = 0
        THEN [pos |-> cp_tmp, R |-> Rnew, trials |-> MaxTrials]
        ELSE LineSearch(a, cp, temp, kn, idx, R_step, Quot(d, 2), k + 1)

\* the position of the update loop after point jj
AfterPoint(jj, dim) ==
    IF jj < dim THEN [pc |-> "update", j |-> jj + 1]
    ELSE [pc |-> "prune", j |-> 0]

UpdatePoint ==
    /\ pc = "update"
    /\ UNCHANGED pure_vars
    /\ IF j > Len(control_points)
       THEN \* control_points[idx]: IndexError
            /\ pc' = "error"
            /\ UNCHANGED << args, heap, arg_ref, cp_ref, tmp_ref, knots,
                            dimension, number_penalty, lam_idx, it, j,
                            Rlambda, Rlambda_stored, fit_list, bic_list,
                            dimension_list, trials >>
       ELSE \E g \in Gradient :
            /\ exp_map(control_points[j], -(g * step_size)) \in Point
            /\ LET ls == LineSearch(
                            [t |-> args.t, y |-> args.y, lam |-> lam,
                             number_penalty |-> number_penalty],
                            control_points, temp_cp, knots, j, Rlambda,
                            g * step_size, 1)
                   nxt == AfterPoint(j, dimension)
               IN  IF ls.R = IndexError
                   THEN \* raised inside the trial: temp_cp[idx] is written,
                        \* control_points[idx] is not
                        /\ heap' = [heap EXCEPT ![tmp_ref][j] = ls.pos]
                        /\ trials' = trials + ls.trials
                        /\ pc' = "error"
                        /\ UNCHANGED << args, arg_ref, cp_ref, tmp_ref,
                                        knots, dimension, number_penalty,
                                        lam_idx, it, j, Rlambda,
                                        Rlambda_stored, fit_list, bic_list,
                                        dimension_list >>
                   ELSE /\ heap' = [heap EXCEPT ![tmp_ref][j] = ls.pos,
                                                 ![cp_ref][j] = ls.pos]
                        /\ Rlambda' = ls.R
                        /\ trials' = trials + ls.trials
                        /\ pc' = nxt.pc
                        /\ j' = nxt.j
                        /\ UNCHANGED << args, arg_ref, cp_ref, tmp_ref,
                                        knots, dimension, number_penalty,
                                        lam_idx, it, Rlambda_stored,
                                        fit_list, bic_list, dimension_list >>

\* ------------------------------------------------------------------------
\* Penalization pruning
\* ------------------------------------------------------------------------
\* jump_size[k] = np.sum((w * jumps[k])**2) with
\* w = ((knots[k+2] - knots[k+1]) + (knots[k+1] - knots[k])) / 2
JumpSize(cp, kn, kk) ==
    LET jump == jump_linear(cp, kn)[kk]
        w2 == (kn[kk + 2] - kn[kk + 1]) + (kn[kk + 1] - kn[kk])
    IN  IF jump = NaN THEN NaN ELSE Quot((w2 * jump) * (w2 * jump), 4)

\* PruneRows that deletes at prune_idx instead of prune_idx + 1
PruneRowsShifted(cp, kn, np) ==
    { kk : kk \in { k \in 1..np : FLt(JumpSize(cp, kn, k), jump_eps) } }

\* prune_idx + 1: the rows np.delete removes (1-based here: the interior
\* point of jump kk is row kk + 1)
PruneRows(cp, kn, np) ==
    { kk + 1 : kk \in { k \in 1..np : FLt(JumpSize(cp, kn, k), jump_eps) } }

\* control_points = np.delete(control_points, prune_idx+1, axis=0)
PruneControlPoints(cp, rows) == Values(NpDelete(cp, rows))

\* PruneKnots that leaves the knots as they are
PruneKnotsKept(kn, rows) == kn

\* PruneKnots that deletes at prune_idx instead of prune_idx + 1
PruneKnotsShifted(kn, rows) == Values(NpDelete(kn, { r - 1 : r \in rows }))

\* knots = np.delete(knots, prune_idx+1)
PruneKnots(kn, rows) == Values(NpDelete(kn, rows))

\* PruneEnabled that does not look at lambda
PruneEnabledAnyLambda(np, lm) == np > 0

\* if number_penalty > 0 and lam > 0
PruneEnabled(np, lm) == np > 0 /\ lm > 0

\* TempAfterPrune that keeps the trial polygon of before the prune
TempAfterPruneKept(new_cp, old_temp) == old_temp

\* temp_cp = control_points.copy() after the rows were deleted
TempAfterPrune(new_cp, old_temp) == new_cp

Prune ==
    /\ pc = "prune"
    /\ UNCHANGED pure_vars
    /\ pc' = "check"
    /\ LET rows == IF PruneEnabled(number_penalty, lam)
                   THEN PruneRows(control_points, knots, number_penalty)
                   ELSE {}
           h1 == IF cp_ref = arg_ref THEN Free(heap, tmp_ref)
                 ELSE Free(Free(heap, tmp_ref), cp_ref)
           c == NpNew(h1, PruneControlPoints(control_points, rows))
           tmp == NpNew(c.heap, TempAfterPrune(c.heap[c.ref], temp_cp))
       IN  IF rows # {}
           THEN /\ heap' = tmp.heap
                /\ cp_ref' = c.ref
                /\ tmp_ref' = tmp.ref
                /\ knots' = PruneKnots(knots, rows)
                /\ dimension' = Len(c.heap[c.ref])
                /\ number_penalty' = Len(c.heap[c.ref]) - 2
           ELSE UNCHANGED << heap, cp_ref, tmp_ref, knots, dimension,
                             number_penalty >>
    /\ UNCHANGED << args, arg_ref, lam_idx, it, j, Rlambda, Rlambda_stored,
                    fit_list, bic_list, dimension_list, trials >>

\* ------------------------------------------------------------------------
\* Convergence check
\* ------------------------------------------------------------------------
\* LoopExit that raises when the iterations are used up
LoopExitRaise(converged, iter, maxiter) ==
    IF converged THEN "save"
    ELSE IF iter < maxiter THEN "update"
    ELSE "error"

\* LoopExit that runs one iteration more than maxiter
LoopExitOneMore(converged, iter, maxiter) ==
    IF converged THEN "save"
    ELSE IF iter <= maxiter THEN "update"
    ELSE "save"

\* where the outer loop goes after the check: break on convergence, the
\* next iteration while it < maxiter, else the loop is exhausted
LoopExit(converged, iter, maxiter) ==
    IF converged THEN "save"
    ELSE IF iter < maxiter THEN "update"
    ELSE "save"

ConvergenceCheck ==
    /\ pc = "check"
    /\ UNCHANGED pure_vars
    /\ LET Rnew == Objective(args.t, args.y, temp_cp, control_points, knots,
                             lam, number_penalty)
           converged == FAbsDiffLt(Rnew, Rlambda_stored, epsilon_iter)
           to == LoopExit(converged, it, args.maxiter)
       IN  IF Rnew = IndexError
           THEN /\ pc' = "error"
                /\ UNCHANGED << Rlambda, Rlambda_stored, it, j >>
           ELSE /\ pc' = to
                /\ IF converged
                   THEN UNCHANGED << Rlambda, Rlambda_stored >>
                   ELSE /\ Rlambda_stored' = Rnew
                        /\ Rlambda' = Rnew
                /\ it' = IF to = "update" THEN it + 1 ELSE it
                /\ j' = IF to = "update" THEN 1 ELSE j
    /\ UNCHANGED << args, heap, arg_ref, cp_ref, tmp_ref, knots, dimension,
                    number_penalty, lam_idx, fit_list, bic_list,
                    dimension_list, trials >>

\* ------------------------------------------------------------------------
\* Save results, next lambda
\* ------------------------------------------------------------------------
\* n * np.log(R) + 3 * np.log(n) * rows, in thousandths
BIC(nn, R, rows) ==
    IF R = NaN THEN NaN
    ELSE IF Ln(R) = NegInf THEN NegInf
    ELSE nn * Ln(R) + 3 * Ln(nn) * rows

\* SavedR with the penalty term of the objective added
SavedRWithPenalty(y, gamma, cp, kn, lm) ==
    IF lm > 0 THEN FAdd(calculate_loss(y, gamma), FScale(lm, JumpPenalty(cp, kn)))
    ELSE calculate_loss(y, gamma)

\* R = calculate_loss(y, gamma)
SavedR(y, gamma, cp, kn, lm) == calculate_loss(y, gamma)

\* CarriedOver that starts every lambda from the initial arrays
CarriedOverReset(cur, initial) == initial

\* CarriedOver that starts every lambda from the initial knots
CarriedOverKnotsReset(cur, initial) ==
    [cur EXCEPT !.knots = initial.knots]

\* for lam_idx in range(number_lambdas): the next lambda goes on from the
\* arrays as the last lambda left them (cur); nothing is set back to the
\* arrays the call began with (initial)
CarriedOver(cur, initial) == cur

\* the rows of control_points when the call begins
InitialRows(a) ==
    IF a.has_cp THEN a.cp ELSE InitialSample(a.y, a.dimension)

SaveResults ==
    /\ pc = "save"
    /\ UNCHANGED pure_vars
    /\ LET gamma == piecewise_geodesic(args.t, temp_cp, knots)
           R == SavedR(args.y, gamma, control_points, knots, lam)
           rows == Len(control_points)
           c == NpCopy(heap, cp_ref)
           carried == CarriedOver(
                          [control_points |-> control_points,
                           temp_cp |-> temp_cp, knots |-> knots],
                          [control_points |-> InitialRows(args),
                           temp_cp |-> InitialRows(args),
                           knots |-> args.knots])
       IN  /\ dimension_list' = [dimension_list EXCEPT ![lam_idx] = rows]
           /\ bic_list' = [bic_list EXCEPT ![lam_idx] = BIC(n, R, rows)]
           /\ fit_list' = Append(fit_list,
                  [gamma |-> gamma, control_points |-> c.ref,
                   knots |-> knots, dimension |-> rows, lambda |-> lam])
           /\ IF lam_idx < Len(args.lambdas)
              THEN /\ heap' = [c.heap EXCEPT
                                  ![cp_ref] = carried.control_points,
                                  ![tmp_ref] = carried.temp_cp]
                   /\ knots' = carried.knots
                   /\ lam_idx' = lam_idx + 1
                   /\ number_penalty' = Len(carried.control_points) - 2
                   /\ it' = 1
                   /\ j' = 1
                   /\ pc' = "update"
              ELSE /\ heap' = c.heap
                   /\ pc' = "done"
                   /\ UNCHANGED << knots, lam_idx, number_penalty, it, j >>
    /\ UNCHANGED << args, arg_ref, cp_ref, tmp_ref, dimension, Rlambda,
                    Rlambda_stored, trials >>

Next == Call \/ UpdatePoint \/ Prune \/ ConvergenceCheck \/ SaveResults

Spec == Init /\ [][Next]_vars

\* ------------------------------------------------------------------------
\* piecewise_geodesic called directly
\* ------------------------------------------------------------------------
MaxObs == 3         \* t has at most MaxObs entries
MaxTime == 4        \* times and knots are drawn from 0..MaxTime

RECURSIVE SeqsUpTo(_, _)
SeqsUpTo(S, len) ==
    IF len = 0 THEN { << >> }
    ELSE LET shorter == SeqsUpTo(S, len - 1)
         IN  shorter \cup { Append(q, x) : q \in shorter, x \in S }

StrictlyIncreasing(q) == \A i \in 1..(Len(q) - 1) : q[i] < q[i + 1]

\* K >= 2 control points with K strictly increasing knots
PolygonInputs ==
    { c \in [control_points : CpInputs,
             knots : { k \in SeqsUpTo(0..MaxTime, 4) : StrictlyIncreasing(k) }] :
        Len(c.knots) = Len(c.control_points) }

InitPG ==
    /\ InitFit
    /\ call = NoCall
    /\ \E tt \in SeqsUpTo(0..MaxTime, MaxObs), c \in PolygonInputs :
        pg = [ fn |-> "piecewise_geodesic", t |-> tt, control_points |-> c.control_points,
               knots |-> c.knots, returned |-> FALSE, rows |-> << >>,
               out |-> << >> ]

\* out is the array returned; rows names, for every row of out, the row
\* of t it was computed from and the segment it was found in
CallPiecewiseGeodesic ==
    /\ ~pg.returned
    /\ pg' = [pg EXCEPT
                !.returned = TRUE,
                !.rows = SegmentRows(pg.t, Len(pg.control_points), pg.knots, 1),
                !.out = piecewise_geodesic(pg.t, pg.control_points, pg.knots)]
    /\ UNCHANGED << fit_vars, call >>

NextPG == CallPiecewiseGeodesic

SpecPG == InitPG /\ [][NextPG]_vars

\* ------------------------------------------------------------------------
\* smoothing.py: knots_quantile, called directly
\* ------------------------------------------------------------------------
MaxKnots == 5       \* the caller's dimension is drawn from 0..MaxKnots

SeqMin(x) == CHOOSE v \in { x[i] : i \in 1..Len(x) } :
                 \A i \in 1..Len(x) : v <= x[i]

SeqMax(x) == CHOOSE v \in { x[i] : i \in 1..Len(x) } :
                 \A i \in 1..Len(x) : v >= x[i]

RECURSIVE SortedSeq(_)
SortedSeq(S) ==
    IF S = {} THEN << >>
    ELSE LET lo == CHOOSE v \in S : \A w \in S : v <= w
         IN  << lo >> \o SortedSeq(S \ { lo })

\* np.unique(x): the distinct values of x, ascending
NpUnique(x) == SortedSeq({ x[i] : i \in 1..Len(x) })

\* np.clip(h, lo, hi) = minimum(hi, maximum(h, lo)); hi when lo > hi
NpClip(h, lo, hi) ==
    LET up == IF h < lo THEN lo ELSE h
    IN  IF up > hi THEN hi ELSE up

\* quantile_type3(values, p) for p = k / (m + 1):
\* values[clip(floor(n*p + 0.5), 1, n) - 1]; with no values the index is
\* -1 and the access raises IndexError
quantile_type3(values, k, m) ==
    LET nv == Len(values)
        h == NpClip((2 * nv * k + (m + 1)) \div (2 * (m + 1)), 1, nv)
    IN  IF nv = 0 THEN IndexError ELSE values[h]

\* MidValues that keeps the first and the last value
MidValuesAll(x) == x

\* x_mid = x[1:-1]
MidValues(x) ==
    IF Len(x) <= 2 THEN << >> ELSE SubSeq(x, 2, Len(x) - 1)

\* ExtendBoundary that extends the upper boundary only
ExtendBoundaryUpperOnly(lo, hi, tiny) == << lo, hi + tiny >>

\* [x.min() - tiny], [x.max() + tiny]
ExtendBoundary(lo, hi, tiny) == << lo - tiny, hi + tiny >>

\* knots_quantile(x, dimension, tiny); Raised when quantile_type3 raises
knots_quantile(x, dim, tiny) ==
    LET u == NpUnique(x)
        number_interior == (IF dim < 2 THEN 2 ELSE dim) - 2
        ends == ExtendBoundary(SeqMin(u), SeqMax(u), tiny)
        x_mid == MidValues(u)
        interior == [k \in 1..number_interior |->
                        quantile_type3(x_mid, k, number_interior)]
    IN  IF number_interior <= 0 THEN ends
        ELSE IF \E k \in 1..number_interior : interior[k] = IndexError
        THEN Raised
        ELSE << ends[1] >> \o interior \o << ends[2] >>

\* tiny: no offset, or one time unit
TinyInputs == { 0, 1 }

InitKQ ==
    /\ InitFit
    /\ pg = NoCall
    /\ \E xx \in SeqsUpTo(0..MaxTime, MaxObs) \ { << >> },
          dd \in 0..MaxKnots, tt \in TinyInputs :
        call = [ fn |-> "knots_quantile", x |-> xx, dimension |-> dd,
                 tiny |-> tt, returned |-> FALSE, raised |-> FALSE,
                 out |-> << >> ]

CallKnotsQuantile ==
    /\ call.fn = "knots_quantile"
    /\ ~call.returned /\ ~call.raised
    /\ LET out == knots_quantile(call.x, call.dimension, call.tiny)
       IN  call' = IF out = Raised
                   THEN [call EXCEPT !.raised = TRUE]
                   ELSE [call EXCEPT !.returned = TRUE, !.out = out]
    /\ UNCHANGED << fit_vars, pg >>

NextKQ == CallKnotsQuantile

SpecKQ == InitKQ /\ [][NextKQ]_vars

\* ------------------------------------------------------------------------
\* geometry.py: geodesic, called directly
\* ------------------------------------------------------------------------
\* the np.isscalar(t) branch: theta = dist_pq * (t - a) / (b - a), not
\* clipped; the point at the angle theta from p on the great circle
\* toward q
GeodesicScalar(tt, p, q, a, b) ==
    IF spherical_dist(p, q) = 0 THEN p
    ELSE p + Quot((q - p) * (tt - a), b - a)

\* the array branch: geodesic_lower for every entry of t
GeodesicArray(t, p, q, a, b) ==
    [i \in 1..Len(t) |-> geodesic_lower(t[i], p, q, a, b)]

\* geodesic(t, p, q, a, b); t is [isscalar, value]
geodesic(t, p, q, a, b) ==
    IF t.isscalar THEN GeodesicScalar(t.value, p, q, a, b)
    ELSE GeodesicArray(t.value, p, q, a, b)

InitGeo ==
    /\ InitFit
    /\ pg = NoCall
    /\ \E tt \in 0..MaxTime, pp \in Point, qq \in Point,
          aa \in 0..MaxTime, bb \in 0..MaxTime :
        /\ aa < bb
        /\ call = [ fn |-> "geodesic", t |-> tt, p |-> pp, q |-> qq,
                    a |-> aa, b |-> bb, returned |-> FALSE,
                    scalar_out |-> 0, array_out |-> << >> ]

\* geodesic(t0, p, q, a, b) and geodesic([t0], p, q, a, b)
CallGeodesic ==
    /\ call.fn = "geodesic"
    /\ ~call.returned
    /\ call' = [call EXCEPT
                  !.returned = TRUE,
                  !.scalar_out =
                      geodesic([isscalar |-> TRUE, value |-> call.t],
                               call.p, call.q, call.a, call.b),
                  !.array_out =
                      geodesic([isscalar |-> FALSE, value |-> << call.t >>],
                               call.p, call.q, call.a, call.b)]
    /\ UNCHANGED << fit_vars, pg >>

NextGeo == CallGeodesic

SpecGeo == InitGeo /\ [][NextGeo]_vars

\* ------------------------------------------------------------------------
\* coords.py: cartesian_to_spherical and edp, called directly
\* ------------------------------------------------------------------------
\* An array is [ndim, data]: data is the vector when ndim = 1 and the
\* sequence of its rows when ndim = 2.  Coordinates are -1, 0 or 1; angles
\* are whole degrees; cosines and sines are in thousandths.
Shape(arr) ==
    IF arr.ndim = 1 THEN << Len(arr.data) >>
    ELSE << Len(arr.data), Len(arr.data[1]) >>

\* theta = arccos(clip(z / r, -1, 1)) with r = 1 where the norm is 0
Inclination(v) ==
    LET r2 == v[1] * v[1] + v[2] * v[2] + v[3] * v[3]
        up == IF r2 <= 1 THEN 0 ELSE IF r2 = 2 THEN 45 ELSE 55
    IN  IF v[3] = 0 THEN 90
        ELSE IF v[3] > 0 THEN up
        ELSE 180 - up

\* phi = mod(arctan2(y, x), 2 pi)
Azimuth(v) ==
    LET x == v[1]
        y == v[2]
    IN  IF y = 0 THEN (IF x < 0 THEN 180 ELSE 0)
        ELSE IF y > 0 THEN (IF x > 0 THEN 45 ELSE IF x = 0 THEN 90 ELSE 135)
        ELSE (IF x < 0 THEN 225 ELSE IF x = 0 THEN 270 ELSE 315)

\* np.cos and np.sin of a multiple of 45 degrees
Cos(deg) ==
    << 1000, 707, 0, -707, -1000, -707, 0, 707 >>[((deg \div 45) % 8) + 1]

Sin(deg) == Cos(deg + 270)

\* cartesian_to_spherical(x): a 1-d array becomes one row; the result has
\* one row (theta, phi) per row, also for a single point
cartesian_to_spherical(arr) ==
    LET rows == IF arr.ndim = 1 THEN << arr.data >> ELSE arr.data
    IN  IF Len(rows[1]) # 3 THEN << ValueError >>
        ELSE [i \in 1..Len(rows) |->
                 << Inclination(rows[i]), Azimuth(rows[i]) >>]

\* theta, phi = cartesian_to_spherical(p): unpacking takes the rows of the
\* result one by one and needs exactly two of them
\* x = theta * np.cos(phi); y = theta * np.sin(phi)
edp(arr) ==
    IF Shape(arr) # << 3 >> THEN << ValueError >>
    ELSE LET tp == cartesian_to_spherical(arr)
         IN  IF Len(tp) # 2 THEN << ValueError >>
             ELSE LET theta == tp[1]
                      phi == tp[2]
                  IN  << [i \in 1..Len(theta) |-> theta[i] * Cos(phi[i])],
                         [i \in 1..Len(theta) |-> theta[i] * Sin(phi[i])] >>

\* vectors of 2, 3 and 4 coordinates, and one point given as a row
EdpInputs ==
    LET Coord == { -1, 0, 1 }
    IN  { [ndim |-> 1, data |-> v] :
              v \in (SeqsUpTo(Coord, 4) \ SeqsUpTo(Coord, 1)) }
        \cup { [ndim |-> 2, data |-> << v >>] :
              v \in (SeqsUpTo(Coord, 3) \ SeqsUpTo(Coord, 2)) }

InitEdp ==
    /\ InitFit
    /\ pg = NoCall
    /\ \E pp \in EdpInputs :
        call = [ fn |-> "edp", p |-> pp, returned |-> FALSE,
                 raised |-> FALSE, out |-> << >> ]

CallEdp ==
    /\ call.fn = "edp"
    /\ ~call.returned /\ ~call.raised
    /\ LET out == edp(call.p)
       IN  call' = IF out = << ValueError >>
                   THEN [call EXCEPT !.raised = TRUE]
                   ELSE [call EXCEPT !.returned = TRUE, !.out = out]
    /\ UNCHANGED << fit_vars, pg >>

NextEdp == CallEdp

SpecEdp == InitEdp /\ [][NextEdp]_vars

\* ------------------------------------------------------------------------
\* smoothing.py: the initial control points sampled from y, on their own
\* ------------------------------------------------------------------------
InitIS ==
    /\ InitFit
    /\ pg = NoCall
    /\ \E yy \in SeqsUpTo(Point, MaxObs) \ { << >> }, dd \in 1..MaxKnots :
        call = [ fn |-> "initial_sample", y |-> yy, dimension |-> dd,
                 returned |-> FALSE, idx |-> << >>, out |-> << >> ]

\* lines 133-136 for initial_control_points = None
CallInitialSample ==
    /\ call.fn = "initial_sample"
    /\ ~call.returned
    /\ call' = [call EXCEPT
                  !.returned = TRUE,
                  !.idx = InitialIndex(Len(call.y), call.dimension),
                  !.out = InitialSample(call.y, call.dimension)]
    /\ UNCHANGED << fit_vars, pg >>

NextIS == CallInitialSample

SpecIS == InitIS /\ [][NextIS]_vars

\* ------------------------------------------------------------------------
\* Properties of penalized_linear_spherical_spline
\* ------------------------------------------------------------------------
\* line 153 has been passed: the control points exist and no argument is
\* missing
Prepared == cp_ref # 0 /\ MissingArgument(args) = "none"

\* the rows of the control points stored in fit record i
FitControlPoints(i) == heap[fit_list[i].control_points]

\* C1: a call that returns holds one fit record, one BIC value and one
\* dimension per lambda, in the order of lambdas, and for every i
\* fits[i].lambda = lambdas[i] and fits[i].dimension = dimension_list[i]
\* = rows of fits[i].control_points = length of fits[i].knots.
C1_ResultPerLambda ==
    pc = "done" =>
        /\ Len(fit_list) = Len(args.lambdas)
        /\ Len(bic_list) = Len(args.lambdas)
        /\ Len(dimension_list) = Len(args.lambdas)
        /\ \A i \in 1..Len(args.lambdas) :
            /\ fit_list[i].lambda = args.lambdas[i]
            /\ fit_list[i].dimension = dimension_list[i]
            /\ dimension_list[i] = Len(FitControlPoints(i))
            /\ dimension_list[i] = Len(fit_list[i].knots)

\* C2: a call without lambdas, without initial_knots, or with neither
\* dimension nor initial_control_points raises before the storage of the
\* loop is prepared (temp_cp does not exist yet), hence before the first
\* outer iteration and before any control point is updated, and no fit
\* record exists.
C2_MissingArgumentRaisesFirst ==
    (/\ pc # "start"
     /\ \/ ~args.has_lambdas
        \/ ~args.has_knots
        \/ ~args.has_dimension /\ ~args.has_cp) =>
        /\ pc = "error"
        /\ tmp_ref = 0
        /\ it = 0
        /\ fit_list = << >>

\* C2 witness: initial_knots is absent and the call has raised after it
\* set up the control points.
C2_Witness ==
    /\ pc = "error"
    /\ ~args.has_knots /\ args.has_lambdas
    /\ cp_ref # 0

\* inputs of mismatched lengths: the number of initial knots differs from
\* the number of control points, or dimension from the rows of
\* initial_control_points
Mismatched(a) ==
    \/ Len(a.knots) # Len(InitialRows(a))
    \/ a.has_cp /\ a.has_dimension /\ a.dimension # Len(a.cp)

\* C3: a call whose inputs have mismatched lengths is rejected with an
\* error before any iteration begins: no iteration has started and no fit
\* record exists.
C3_MismatchRejected ==
    (pc # "start" /\ MissingArgument(args) = "none" /\ Mismatched(args)) =>
        /\ pc = "error"
        /\ it = 0
        /\ fit_list = << >>

\* C4: when the call begins with as many knots as control points, then
\* after every step there are as many knots as control points, in the
\* working arrays and in every fit record, and a step that changes the
\* knots removes interior knots and removes the control points of the same
\* rows.
C4_KnotsAndPointsTogether ==
    [][ (Prepared' /\ Len(args'.knots) = Len(InitialRows(args'))) =>
          /\ Len(knots') = Len(control_points')
          /\ \A i \in 1..Len(fit_list') :
                Len(fit_list'[i].knots) = Len(heap'[fit_list'[i].control_points])
          /\ (knots # << >> /\ knots' # knots) =>
                \E rows \in SUBSET (2..(Len(knots) - 1)) :
                    /\ knots' = Values(NpDelete(knots, rows))
                    /\ Len(control_points') = Len(control_points) - Cardinality(rows)
                    /\ control_points' = Values(NpDelete(control_points, rows))
      ]_vars

\* C4 witness: the call began with as many knots as control points, a
\* prune has removed a knot, and a fit record has been stored since.
C4_Witness ==
    /\ Prepared
    /\ Len(args.knots) = Len(InitialRows(args))
    /\ Len(knots) < Len(args.knots)
    /\ fit_list # << >>

\* C5: the number of control points never exceeds the number the call
\* began with nor the dimension recorded for the last lambda, and the
\* recorded dimensions never increase from one lambda to the next:
\* dimension_list[i+1] <= dimension_list[i] <= initial number.
C5_DimensionNeverGrows ==
    Prepared =>
        /\ Len(control_points) <= Len(InitialRows(args))
        /\ \A i \in 1..Len(fit_list) :
            /\ dimension_list[i] <= Len(InitialRows(args))
            /\ i > 1 => dimension_list[i] <= dimension_list[i - 1]
        /\ fit_list # << >> =>
              Len(control_points) <= dimension_list[Len(fit_list)]

\* C5 witness: an increasing lambda sequence whose second lambda ended
\* with fewer control points than its first.
C5_Witness ==
    /\ pc = "done"
    /\ StrictlyIncreasing(args.lambdas)
    /\ Len(dimension_list) = 2
    /\ dimension_list[2] < dimension_list[1]

\* what a reader of fit record i sees
FitView(i) ==
    [ gamma |-> fit_list[i].gamma, control_points |-> FitControlPoints(i),
      knots |-> fit_list[i].knots, dimension |-> fit_list[i].dimension,
      lambda |-> fit_list[i].lambda ]

\* C6: a fit record, once appended, never changes: no later step changes
\* the control points, knots, curve, dimension or lambda seen in it.
C6_FitRecordFrozen ==
    [][ \A i \in 1..Len(fit_list) : FitView(i)' = FitView(i) ]_vars

\* C6 witness: two lambdas are done and the working control points have
\* moved on from the ones stored for the first lambda.
C6_Witness ==
    /\ pc = "done"
    /\ Len(fit_list) = 2
    /\ FitControlPoints(1) # control_points
    /\ Len(FitControlPoints(1)) = Len(control_points)

\* ------------------------------------------------------------------------
\* Properties of piecewise_geodesic (checked under SpecPG)
\* ------------------------------------------------------------------------
\* row i of t lies in the half-open range [knots[0], knots[-1])
InRange(i) ==
    /\ pg.t[i] >= pg.knots[1]
    /\ pg.t[i] < pg.knots[Len(pg.knots)]

\* the rows of the output computed from row i of t
OutputRowsOf(i) == { r \in 1..Len(pg.rows) : pg.rows[r][1] = i }

\* C7: for K >= 2 control points and K strictly increasing knots the call
\* returns exactly one point for every entry of t in [knots[0], knots[-1])
\* and none for any other entry (below knots[0], above or equal to
\* knots[-1]), so the output has as many rows as t has entries in range.
C7_OneRowPerInRangeEntry ==
    pg.returned =>
        /\ Len(pg.out) = Cardinality({ i \in 1..Len(pg.t) : InRange(i) })
        /\ Len(pg.rows) = Len(pg.out)
        /\ \A i \in 1..Len(pg.t) :
              Cardinality(OutputRowsOf(i)) = IF InRange(i) THEN 1 ELSE 0

\* C7 witness: t holds an entry below knots[0], an entry equal to knots[-1]
\* and an entry equal to an interior knot, and the call has returned a
\* single row.
C7_Witness ==
    /\ pg.returned
    /\ Len(pg.knots) >= 3
    /\ \E i \in 1..Len(pg.t) : pg.t[i] < pg.knots[1]
    /\ \E i \in 1..Len(pg.t) : pg.t[i] = pg.knots[Len(pg.knots)]
    /\ \E i \in 1..Len(pg.t) : pg.t[i] = pg.knots[2]
    /\ Len(pg.out) = 1

\* the output rows follow the order of the rows of t
InInputOrder ==
    \A r1, r2 \in 1..Len(pg.rows) :
        r1 < r2 => pg.rows[r1][1] < pg.rows[r2][1]

\* no in-range entry of t precedes an entry of an earlier segment
NoInversion ==
    \A i1, i2 \in 1..Len(pg.t) :
        (i1 < i2 /\ InRange(i1) /\ InRange(i2)) =>
            SegmentOf(pg.t[i1], Len(pg.control_points), pg.knots)
                <= SegmentOf(pg.t[i2], Len(pg.control_points), pg.knots)

NonDecreasing(q) == \A i \in 1..(Len(q) - 1) : q[i] <= q[i + 1]

\* C8: the rows of the output are ordered by segment and, within a
\* segment, by the position of the entry in t; every row is the point of
\* its entry on the segment that holds the entry.  The rows are in input
\* order exactly when no in-range entry precedes an entry of an earlier
\* segment, in particular whenever t is non-decreasing.
C8_OrderedBySegment ==
    pg.returned =>
        /\ \A r \in 1..Len(pg.rows) :
            LET i == pg.rows[r][1]
                s == pg.rows[r][2]
            IN  /\ s = SegmentOf(pg.t[i], Len(pg.control_points), pg.knots)
                /\ pg.out[r] = geodesic_lower(pg.t[i], pg.control_points[s],
                                              pg.control_points[s + 1],
                                              pg.knots[s], pg.knots[s + 1])
        /\ \A r1, r2 \in 1..Len(pg.rows) :
            r1 < r2 =>
                \/ pg.rows[r1][2] < pg.rows[r2][2]
                \/ /\ pg.rows[r1][2] = pg.rows[r2][2]
                   /\ pg.rows[r1][1] < pg.rows[r2][1]
        /\ InInputOrder <=> NoInversion
        /\ NonDecreasing(pg.t) => InInputOrder

\* C8 witness: t is out of order across segments and the call has returned
\* three rows that are not in input order.
C8_Witness ==
    /\ pg.returned
    /\ Len(pg.out) = 3
    /\ ~NonDecreasing(pg.t)
    /\ ~InInputOrder

\* ------------------------------------------------------------------------
\* Properties of the saved results
\* ------------------------------------------------------------------------
\* the loss of the curve stored in fit record i
FitLoss(i) == calculate_loss(args.y, fit_list[i].gamma)

\* the jump penalty of the control points and knots stored in fit record i
FitPenalty(i) == JumpPenalty(FitControlPoints(i), fit_list[i].knots)

\* C9 as stated: the BIC recorded for a lambda is n*ln(R) + 3*ln(n)*K with
\* R the loss plus lambda times the jump penalty of the final control
\* points (taken where that penalty is a number).
C9_BicOfTotalObjective ==
    \A i \in 1..Len(fit_list) :
        (Len(fit_list[i].knots) = dimension_list[i] /\ FitPenalty(i) # NaN) =>
            bic_list[i] =
                BIC(n, FAdd(FitLoss(i),
                            FScale(fit_list[i].lambda, FitPenalty(i))),
                    dimension_list[i])

\* C9 amended: the BIC recorded for a lambda is n*ln(R) + 3*ln(n)*K with K
\* the final number of control points of that lambda, n the number of
\* observations and R the loss of the final curve alone, without the
\* penalty term.
C9_BicOfLoss ==
    \A i \in 1..Len(fit_list) :
        bic_list[i] = BIC(n, FitLoss(i), Len(FitControlPoints(i)))

\* C9 witness: a lambda > 0 has been saved whose final control points have
\* a positive jump penalty and a positive loss.
C9_Witness ==
    \E i \in 1..Len(fit_list) :
        /\ fit_list[i].lambda > 0
        /\ Len(fit_list[i].knots) = dimension_list[i]
        /\ FitPenalty(i) # NaN /\ FitPenalty(i) > 0
        /\ FitLoss(i) > 0

\* the objective the convergence check computes
CheckObjective ==
    Objective(args.t, args.y, temp_cp, control_points, knots, lam,
              number_penalty)

\* the check at the last iteration finds no convergence (and no error)
Exhausted ==
    /\ pc = "check"
    /\ it = args.maxiter
    /\ CheckObjective # IndexError
    /\ ~FAbsDiffLt(CheckObjective, Rlambda_stored, epsilon_iter)

\* C10: when the check of iteration maxiter finds no convergence, no error
\* is raised and the run goes on to save; the save appends one fit record
\* built from the control points and knots as they are, and goes on to the
\* next lambda (or returns after the last one).
C10_MaxiterStillRecords ==
    [][ /\ Exhausted =>
              /\ pc' = "save"
              /\ UNCHANGED << heap, cp_ref, tmp_ref, knots, fit_list >>
        /\ pc = "save" =>
              /\ Len(fit_list') = Len(fit_list) + 1
              /\ \A i \in 1..Len(fit_list) : fit_list'[i] = fit_list[i]
              /\ LET rec == fit_list'[Len(fit_list')]
                 IN  /\ heap'[rec.control_points] = control_points
                     /\ rec.knots = knots
                     /\ rec.gamma = piecewise_geodesic(args.t, temp_cp, knots)
                     /\ rec.dimension = Len(control_points)
                     /\ rec.lambda = lam
              /\ IF lam_idx < Len(args.lambdas)
                 THEN pc' = "update" /\ lam_idx' = lam_idx + 1 /\ it' = 1
                 ELSE pc' = "done"
      ]_vars

\* C10 witness: with maxiter = 1 the first lambda cannot converge (its
\* first check compares against inf); its fit record is there and the
\* second lambda has begun.
C10_Witness ==
    /\ args.maxiter = 1
    /\ Len(fit_list) = 1
    /\ lam_idx = 2
    /\ pc = "update"

\* ------------------------------------------------------------------------
\* Termination and the work bound
\* ------------------------------------------------------------------------
\* the call has returned or raised
Terminated == pc \in { "done", "error" }

\* the number of control points the call began with
InitialK == Len(InitialRows(args))

\* the most point updates that can have been made when the call is where
\* it is: K per finished iteration, and one per point passed in this one
UpdatesSoFar ==
    IF lam_idx = 0 THEN 0
    ELSE ((lam_idx - 1) * args.maxiter + (it - 1)) * InitialK
             + (IF pc = "update" /\ j - 1 <= InitialK THEN j - 1 ELSE InitialK)

WithinBound ==
    Prepared =>
        /\ it <= args.maxiter
        /\ lam_idx <= Len(args.lambdas)
        /\ pc = "update" => j <= InitialK + 1
        /\ trials <= UpdatesSoFar * MaxTrials
        /\ trials <= Len(args.lambdas) * args.maxiter * InitialK * MaxTrials

\* the most positions the update loop can pass in one iteration
MaxDimension ==
    IF InitialDimension(args) > InitialK THEN InitialDimension(args)
    ELSE InitialK

\* steps of one outer iteration: the updates, the prune and the check
IterationSteps == MaxDimension + 2

\* steps of one lambda: its iterations and the save
LambdaSteps == args.maxiter * IterationSteps + 1

\* an upper bound of the number of steps the call can still take
Rank ==
    IF Terminated \/ pc = "start" THEN 0
    ELSE (Len(args.lambdas) - lam_idx) * LambdaSteps
         + (IF pc = "save" THEN 1
            ELSE (args.maxiter - it) * IterationSteps + 1
                 + (IF pc = "update" THEN (MaxDimension - j + 1) + 2
                    ELSE IF pc = "prune" THEN 2
                    ELSE 1))

\* C15: every call terminates: every step of a call takes it strictly
\* closer to its end (Rank, a whole number >= 0, falls with every step, so
\* no call takes more than Rank steps); every lambda runs at most maxiter
\* outer iterations, every iteration updates at most K points and every
\* update evaluates at most 100 trials, so that the call evaluates at most
\* len(lambdas) * maxiter * K * 100 trials (K the number of control points
\* at the start).
C15_TerminatesWithinBound ==
    [][ /\ WithinBound'
        /\ pc' # "start"
        /\ ~Terminated
        /\ Rank' >= 0
        /\ pc # "start" => Rank' < Rank
        /\ trials' >= trials /\ trials' <= trials + MaxTrials
      ]_vars

\* C15 witness: a call over two lambdas has returned after at least one
\* line search used up all its trials.
C15_Witness ==
    /\ pc = "done"
    /\ Len(fit_list) = 2
    /\ trials > MaxTrials

\* ------------------------------------------------------------------------
\* Properties of knots_quantile (checked under SpecKQ)
\* ------------------------------------------------------------------------
\* the call of knots_quantile has ended, by return or by raise
EndedKQ == call.fn = "knots_quantile" /\ (call.returned \/ call.raised)

\* the values that occur in x
ValuesOf(x) == { x[i] : i \in 1..Len(x) }

\* v is the least (the greatest) value that occurs in x
IsMinOf(v, x) == v \in ValuesOf(x) /\ \A w \in ValuesOf(x) : v <= w
IsMaxOf(v, x) == v \in ValuesOf(x) /\ \A w \in ValuesOf(x) : v >= w

\* C11: for a non-empty x and a dimension <= 2 the call returns exactly
\* the two knots min(x) - tiny and max(x) + tiny, whatever the order and
\* the multiplicity of the entries of x.
C11_TwoBoundaryKnots ==
    (EndedKQ /\ call.dimension <= 2) =>
        /\ call.returned
        /\ Len(call.out) = 2
        /\ IsMinOf(call.out[1] + call.tiny, call.x)
        /\ IsMaxOf(call.out[2] - call.tiny, call.x)

\* C11 witness: x is out of order and holds a value twice, the dimension is
\* below 2, tiny is positive, and the call has returned.
C11_Witness ==
    /\ EndedKQ /\ call.returned
    /\ call.dimension < 2
    /\ call.tiny > 0
    /\ Len(call.x) = 3
    /\ call.x[1] > call.x[2]
    /\ call.x[1] = call.x[3]

\* the parts of C12 that hold of every call that returns
BoundaryAndInterior ==
    /\ Len(call.out) = call.dimension
    /\ IsMinOf(call.out[1] + call.tiny, call.x)
    /\ IsMaxOf(call.out[call.dimension] - call.tiny, call.x)
    /\ \A k \in 2..(call.dimension - 1) :
        /\ call.out[k] \in ValuesOf(call.x)
        /\ ~IsMinOf(call.out[k], call.x)
        /\ ~IsMaxOf(call.out[k], call.x)

C13_KnotsStrictlyIncreasing ==
    (EndedKQ /\ call.returned /\ call.dimension >= 2 /\ call.tiny > 0) =>
        StrictlyIncreasing(call.out)

\* ------------------------------------------------------------------------
\* Properties of geodesic (checked under SpecGeo)
\* ------------------------------------------------------------------------
\* C14: geodesic evaluates the arc from p to q at s = (t-a)/(b-a) clamped
\* to [0,1], for a scalar t as for an array t: a t <= a yields p, a t >= b
\* yields q, and the point returned for the scalar t0 is the point
\* returned at position 0 for the array [t0].
C14_ClampedForScalarAndArray ==
    (call.fn = "geodesic" /\ call.returned) =>
        /\ Len(call.array_out) = 1
        /\ call.t <= call.a =>
              call.scalar_out = call.p /\ call.array_out[1] = call.p
        /\ call.t >= call.b =>
              call.scalar_out = call.q /\ call.array_out[1] = call.q
        /\ call.scalar_out = call.array_out[1]

\* ------------------------------------------------------------------------
\* Properties of edp (checked under SpecEdp)
\* ------------------------------------------------------------------------
\* C16: for a 3-vector p the call returns the 2-vector
\* (theta*cos(phi), theta*sin(phi)) of the one pair (theta, phi) that
\* cartesian_to_spherical returns for p; an input of any other shape is
\* rejected with ValueError.
C16_EdpOfThreeVector ==
    (call.fn = "edp" /\ (call.returned \/ call.raised)) =>
        IF Shape(call.p) = << 3 >>
        THEN /\ call.returned
             /\ Len(cartesian_to_spherical(call.p)) = 1
             /\ LET theta == cartesian_to_spherical(call.p)[1][1]
                    phi == cartesian_to_spherical(call.p)[1][2]
                IN  call.out = << theta * Cos(phi), theta * Sin(phi) >>
        ELSE call.raised

\* ------------------------------------------------------------------------
\* Numeric degeneracy, line search and pruning
\* ------------------------------------------------------------------------
\* the lambda loop is running or has returned
InLoop == pc \in { "update", "prune", "check", "save", "done" }

\* C17: numeric degeneracy is handled where it arises and never handed on:
\* with coincident adjacent control points the jump penalty is still a
\* number, and no objective value the optimizer holds is NaN or infinite.
C17_DegeneracyNeverPropagates ==
    (Prepared /\ InLoop) =>
        /\ JumpPenalty(control_points, knots) # NaN
        /\ Rlambda # NaN
        /\ Rlambda # Inf

\* the offset of the k-th trial of a line search that starts at offset d:
\* d halved k - 1 times
RECURSIVE TrialOffset(_, _)
TrialOffset(d, k) ==
    IF k = 1 \/ d = 0 THEN d ELSE TrialOffset(Quot(d, 2), k - 1)

\* the position of point j at the k-th trial for the gradient g
TrialPosition(g, k) ==
    exp_map(control_points[j], -TrialOffset(g * step_size, k))

\* the total objective with point j moved by the offset d
ObjectiveAt(d) ==
    LET trial == [temp_cp EXCEPT ![j] = exp_map(control_points[j], -d)]
    IN  Objective(args.t, args.y, trial, trial, knots, lam, number_penalty)

\* the total objective with point j at the k-th trial position
TrialObjective(g, k) == ObjectiveAt(TrialOffset(g * step_size, k))

\* the offsets of the trials before the k-th
EarlierOffsets(g, k) == { TrialOffset(g * step_size, i) : i \in 1..(k - 1) }

\* C18: an update tries the steps step_size * 2^-k, k = 0, 1, 2, ..., at
\* most 100 of them, and commits the first trial whose total objective
\* does not exceed the objective R before the update, or the 100th trial
\* when none does; exactly that one position is written to the point, the
\* recorded objective becomes that trial's objective, and the objective
\* exceeds R after the update only when all 100 trials failed.
C18_LineSearchCommitsFirstFit ==
    [][ (pc = "update" /\ pc' # "error") =>
          LET k == trials' - trials
          IN  /\ k \in 1..MaxTrials
              /\ \E g \in Gradient :
                  /\ control_points' =
                        [control_points EXCEPT ![j] = TrialPosition(g, k)]
                  /\ temp_cp' = control_points'
                  /\ Rlambda' = TrialObjective(g, k)
                  /\ \A d \in EarlierOffsets(g, k) :
                        ~FLe(ObjectiveAt(d), Rlambda)
                  /\ k < MaxTrials => FLe(Rlambda', Rlambda)
              /\ ~FLe(Rlambda', Rlambda) => k = MaxTrials
      ]_vars

\* C18 witness: the first update of the call has committed its second
\* trial, the step halved once.
C18_Witness ==
    /\ pc = "update"
    /\ lam_idx = 1 /\ it = 1 /\ j = 2
    /\ trials = 2

\* the entries of q at the positions outside D, in their order
Surviving(q, D) ==
    LET keep == SortedSeq((1..Len(q)) \ D)
    IN  [i \in 1..Len(keep) |-> q[keep[i]]]

\* the weighted jump energy of the interior control point at row i
JumpEnergy(i) == JumpSize(control_points, knots, i - 1)

\* C19: a prune step (lambda > 0, K > 2) deletes exactly the interior
\* control points (rows 2..K-1 of the polygon before the step) whose
\* weighted jump energy is strictly below jump_eps, all in one step, and
\* the knots of the same rows; the first and last control point and knot
\* stay, at least two control points remain, and what survives keeps its
\* value and its order.
C19_PruneDeletesLowEnergyInterior ==
    [][ (pc = "prune" /\ lam > 0 /\ Len(control_points) > 2) =>
          LET K == Len(control_points)
              D == { i \in 2..(K - 1) : FLt(JumpEnergy(i), jump_eps) }
          IN  /\ control_points' = Surviving(control_points, D)
              /\ knots' = Surviving(knots, D)
              /\ Len(control_points') >= 2
              /\ control_points'[1] = control_points[1]
              /\ control_points'[Len(control_points')] = control_points[K]
              /\ knots'[1] = knots[1]
              /\ knots'[Len(knots')] = knots[Len(knots)]
      ]_vars

\* C19 witness: the first prune of the call has deleted two control points
\* at once.
C19_Witness ==
    /\ pc = "check"
    /\ lam_idx = 1 /\ it = 1
    /\ Len(args.knots) = Len(InitialRows(args))
    /\ Len(control_points) = Len(InitialRows(args)) - 2
    /\ Len(knots) = Len(args.knots) - 2

\* the knots and the number of control points lambda run i began with
StartKnots(i) == IF i = 1 THEN args.knots ELSE fit_list[i - 1].knots
StartRows(i) ==
    IF i = 1 THEN Len(InitialRows(args)) ELSE fit_list[i - 1].dimension

\* C20: no pruning when lambda = 0 or when the polygon has no interior
\* point (K = 2): no step of such a lambda run changes the knots or the
\* number of control points, and the run ends with the knots and the
\* number of control points it began with.
C20_NoPruneWithoutPenalty ==
    [][ /\ (Prepared /\ pc \in { "update", "prune", "check", "save" }
              /\ (lam = 0 \/ Len(control_points) = 2)) =>
              /\ knots' = knots
              /\ Len(control_points') = Len(control_points)
        /\ Prepared' =>
              \A i \in 1..Len(fit_list') :
                  (fit_list'[i].lambda = 0 \/ StartRows(i)' = 2) =>
                      /\ fit_list'[i].knots = StartKnots(i)'
                      /\ fit_list'[i].dimension = StartRows(i)'
      ]_vars

\* C20 witness: a run with lambda = 0 has ended with the three control
\* points it began with, although the jump energy of the interior one is
\* below jump_eps.
C20_Witness ==
    /\ Prepared
    /\ Len(fit_list) >= 1
    /\ fit_list[1].lambda = 0
    /\ fit_list[1].dimension = 3
    /\ Len(fit_list[1].knots) = 3
    /\ FLt(JumpSize(FitControlPoints(1), fit_list[1].knots, 1), jump_eps)

\* ------------------------------------------------------------------------
\* Convergence, update order and warm start
\* ------------------------------------------------------------------------
\* the total objective of a polygon: the loss of its curve plus lm times
\* its jump penalty
TotalObjective(cp, kn, lm) ==
    LET gamma == piecewise_geodesic(args.t, cp, kn)
        loss == IF gamma = Raised THEN IndexError
                ELSE calculate_loss(args.y, gamma)
    IN  IF loss = IndexError THEN IndexError
        ELSE IF lm > 0 THEN FAdd(loss, FScale(lm, JumpPenalty(cp, kn)))
        ELSE loss

\* the objective recorded at the previous outer iteration of this lambda
\* run; the first iteration of a run has none, and nothing is within
\* epsilon_iter of inf
PreviousRecorded == IF it = 1 THEN Inf ELSE Rlambda_stored

\* C21: in each lambda run an outer iteration is the last one of the run
\* exactly when it is the maxiter-th iteration or the total objective
\* recomputed after its updates and pruning differs by less than
\* epsilon_iter from the objective recorded at the previous outer
\* iteration; otherwise the recomputed objective becomes the recorded
\* baseline and the pre-step objective of the next pass.
C21_LastIterationIffConverged ==
    [][ (Prepared /\ pc = "check" /\ pc' # "error") =>
          LET R == TotalObjective(control_points, knots, lam)
              last == \/ it = args.maxiter
                      \/ FAbsDiffLt(R, PreviousRecorded, epsilon_iter)
          IN  /\ pc' = "save" <=> last
              /\ ~last => /\ pc' = "update"
                          /\ it' = it + 1
                          /\ Rlambda_stored' = R
                          /\ Rlambda' = R
      ]_vars

\* C26: the convergence test of a lambda run compares only objectives
\* recorded in that same run: the recorded objective is reset (to inf) when
\* a lambda run starts, for the first lambda and for every later one, so
\* the test cannot succeed at the first outer iteration of a run, and a
\* run makes at least two outer iterations whenever maxiter >= 2.
C26_BaselineResetPerLambda ==
    [][ /\ (pc \in { "start", "save" } /\ pc' = "update") =>
              Rlambda_stored' = Inf
        /\ (Prepared /\ pc = "check" /\ it = 1 /\ args.maxiter >= 2
              /\ pc' # "error") =>
              /\ pc' = "update"
              /\ it' = 2
      ]_vars

\* the total objective with point j moved by the offset d and every other
\* point at its committed position
CommittedObjectiveAt(d) ==
    LET trial == [control_points EXCEPT ![j] = exp_map(control_points[j], -d)]
    IN  Objective(args.t, args.y, trial, trial, knots, lam, number_penalty)

\* the offsets a line search can try for the gradient g
OffsetsOf(g) == { TrialOffset(g * step_size, k) : k \in 1..MaxTrials }

\* C22: every outer iteration updates every control point of the current
\* polygon exactly once, in index order 1..K (K the current number of
\* control points): the pass begins at the first point, the update of
\* point j is followed by the update of point j + 1, and the pass ends
\* after point K.  The update of point j is computed with the other points
\* at their committed positions, changes control point j only and leaves
\* every other control point and every knot as it is.
C22_EveryPointOncePerPass ==
    [][ /\ (Prepared /\ pc = "update" /\ pc' # "error") =>
              LET K == Len(control_points)
              IN  /\ j \in 1..K
                  /\ Len(control_points') = K
                  /\ \A i \in 1..K :
                        i # j => control_points'[i] = control_points[i]
                  /\ \E g \in Gradient : \E d \in OffsetsOf(g) :
                        /\ control_points'[j] = exp_map(control_points[j], -d)
                        /\ Rlambda' = CommittedObjectiveAt(d)
                  /\ knots' = knots
                  /\ IF j < K
                     THEN pc' = "update" /\ j' = j + 1 /\ it' = it
                     ELSE pc' = "prune"
        /\ (pc # "update" /\ pc' = "update") => j' = 1
      ]_vars

\* C23: warm start: the control points and the knots with which the run of
\* the next lambda begins are exactly those stored in the fit record of the
\* lambda that has ended (its final, possibly pruned state); the move to
\* the next lambda changes neither array.
C23_WarmStart ==
    [][ (pc = "save" /\ lam_idx < Len(args.lambdas)) =>
          /\ pc' = "update"
          /\ lam_idx' = lam_idx + 1
          /\ control_points' = control_points
          /\ temp_cp' = temp_cp
          /\ knots' = knots
          /\ Len(fit_list') = lam_idx
          /\ heap'[fit_list'[lam_idx].control_points] = control_points'
          /\ fit_list'[lam_idx].knots = knots'
      ]_vars

\* C23 witness: the second lambda has begun with the polygon of the first
\* fit record, which holds fewer control points and knots than the call
\* began with.
C23_Witness ==
    /\ pc = "update"
    /\ lam_idx = 2 /\ it = 1 /\ j = 1
    /\ Len(fit_list) = 1
    /\ FitControlPoints(1) = control_points
    /\ fit_list[1].knots = knots
    /\ Len(control_points) < Len(InitialRows(args))
    /\ Len(knots) < Len(args.knots)

\* ------------------------------------------------------------------------
\* Knots, the pre-step objective and the observation times
\* ------------------------------------------------------------------------
\* kn is what is left of init after interior entries were removed: the
\* first and the last entry of init are there, the rest is in its order
InteriorRemoved(kn, init) ==
    \E D \in SUBSET (2..(Len(init) - 1)) : kn = Surviving(init, D)

\* C24: knot values are never modified: at every point of a run and in
\* every fit record the knot vector is a subsequence of the initial knot
\* vector that still holds the initial first and last knot, and the only
\* change the knots ever undergo is the removal of interior entries by a
\* prune.
C24_KnotsOnlyPruned ==
    [][ /\ Prepared' =>
              /\ InteriorRemoved(knots', args'.knots)
              /\ knots'[1] = args'.knots[1]
              /\ knots'[Len(knots')] = args'.knots[Len(args'.knots)]
              /\ \A i \in 1..Len(fit_list') :
                    InteriorRemoved(fit_list'[i].knots, args'.knots)
        /\ (Prepared /\ knots' # knots) =>
              /\ pc = "prune"
              /\ Len(knots') < Len(knots)
              /\ InteriorRemoved(knots', knots)
      ]_vars

\* C24 witness: the first lambda has ended with the four initial knots,
\* the second has ended with interior knots removed, the first and the
\* last knot still there.
C24_Witness ==
    /\ pc = "done"
    /\ Len(args.knots) = 4
    /\ Len(fit_list) = 2
    /\ fit_list[1].knots = args.knots
    /\ Len(fit_list[2].knots) < 4
    /\ knots[1] = args.knots[1]
    /\ knots[Len(knots)] = args.knots[4]

\* C25: at the start of the line search of every point update, in every
\* outer iteration of every lambda (the first update after a prune and the
\* first update of a new lambda included), the pre-step objective R that
\* the trials are compared against is the total objective, loss plus the
\* current lambda times the penalty, of the committed control points and
\* knots.
C25_PreStepObjectiveIsCurrent ==
    (Prepared /\ pc = "update" /\ j <= Len(control_points)) =>
        Rlambda = TotalObjective(control_points, knots, lam)

\* the segments of the knot vector kn that hold the time x
SegmentsHolding(x, kn) ==
    { s \in 1..(Len(kn) - 1) : kn[s] <= x /\ x < kn[s + 1] }

\* the curve through cp has one row per observation and, when t is
\* non-decreasing, row i is the curve point for t[i]
CurveCoversObservations(cp, kn) ==
    LET gamma == piecewise_geodesic(args.t, cp, kn)
    IN  /\ gamma # Raised
        /\ Len(gamma) = n
        /\ NonDecreasing(args.t) =>
              \A i \in 1..n :
                  LET s == SegmentOf(args.t[i], Len(cp), kn)
                  IN  /\ s # 0
                      /\ gamma[i] = geodesic_lower(args.t[i], cp[s], cp[s + 1],
                                                   kn[s], kn[s + 1])

\* C27: when every observation time lies in [knots[0], knots[-1]) at the
\* start and the initial knots are strictly increasing, then after any
\* sequence of updates and prunes every observation time falls into
\* exactly one segment of the current knot vector, every curve evaluation
\* of the optimizer returns exactly n rows, and, when t is non-decreasing,
\* row i is the curve point for t[i], the one the loss pairs with y[i].
C27_ObservationsStayCovered ==
    (/\ Prepared
     /\ StrictlyIncreasing(args.knots)
     /\ \A i \in 1..n : /\ args.knots[1] <= args.t[i]
                        /\ args.t[i] < args.knots[Len(args.knots)]) =>
        /\ \A i \in 1..n :
              Cardinality(SegmentsHolding(args.t[i], knots)) = 1
        /\ tmp_ref # 0 =>
              /\ CurveCoversObservations(control_points, knots)
              /\ CurveCoversObservations(temp_cp, knots)
        /\ \A i \in 1..Len(fit_list) : Len(fit_list[i].gamma) = n

\* ------------------------------------------------------------------------
\* The caller's arguments and the trial polygon
\* ------------------------------------------------------------------------
\* C28: the call leaves its caller's arrays unchanged: at every point of
\* the call and after it the array passed as initial_control_points holds
\* the rows it held when the call began, be it a list or a floating-point
\* array.  (t, y and initial_knots are never written in place.)
C28_CallerArgumentsUnchanged ==
    (Prepared /\ arg_ref # 0) => heap[arg_ref] = args.cp

\* no line search is in progress: the call is between two point updates,
\* before the prune, the check or the save, or has returned
BetweenLineSearches ==
    Prepared /\ pc \in { "update", "prune", "check", "save", "done" }

\* C29: whenever no line search is in progress (after each committed point
\* update, after the prune, at the convergence check and when a fit is
\* recorded) the trial polygon temp_cp equals the committed control
\* points; hence the curve stored in a fit record is exactly the curve
\* through the control points and knots stored in that record.
C29_TrialPolygonEqualsCommitted ==
    BetweenLineSearches =>
        /\ temp_cp = control_points
        /\ \A i \in 1..Len(fit_list) :
              fit_list[i].gamma =
                  piecewise_geodesic(args.t, FitControlPoints(i),
                                     fit_list[i].knots)

\* C29 witness: a fit was recorded after a prune removed a control point
\* and an update moved one: its control points are fewer than, and not
\* the first rows of, the polygon the call began with.
C29_Witness ==
    /\ BetweenLineSearches
    /\ Len(fit_list) >= 1
    /\ Len(FitControlPoints(1)) < Len(InitialRows(args))
    /\ FitControlPoints(1)[1] # InitialRows(args)[1]
    /\ Len(fit_list[1].gamma) = n

\* ------------------------------------------------------------------------
\* Properties of the initial sample (checked under SpecIS)
\* ------------------------------------------------------------------------
\* a sample of a dimension >= 2 has been drawn
Sampled == call.fn = "initial_sample" /\ call.returned /\ call.dimension >= 2

\* the sample holds dimension rows y[i_k] with the 0-based indices
\* i_k = floor(k * (n - 1) / (dimension - 1)), k = 0..dimension-1, all of
\* them within 0..n-1, the first 0 and the last n - 1
FloorIndices ==
    LET nn == Len(call.y)
        d == call.dimension
    IN  /\ Len(call.idx) = d
        /\ Len(call.out) = d
        /\ \A k \in 1..d :
            /\ call.idx[k] \in 0..(nn - 1)
            /\ call.idx[k] * (d - 1) <= (k - 1) * (nn - 1)
            /\ (k - 1) * (nn - 1) < (call.idx[k] + 1) * (d - 1)
            /\ call.out[k] = call.y[call.idx[k] + 1]
        /\ call.idx[1] = 0 /\ call.out[1] = call.y[1]
        /\ call.idx[d] = nn - 1 /\ call.out[d] = call.y[nn]

=============================================================================
